---- MODULE Spec2Model ----
(***************************************************************************)
(* Steam Workshop watcher bot: the notification store (modules/common.js), *)
(* the reconciliation sweep started on ClientReady (index.js) and the      *)
(* command handlers that mutate the store (commands/*.js).                 *)
(*                                                                         *)
(* Every suspension point of the JavaScript code (an await) ends an        *)
(* action: an action is the synchronous run of a handler from one await    *)
(* (or its start) to the next await (or its end).                          *)
(***************************************************************************)
EXTENDS Integers, Sequences, FiniteSets, TLC

(***************************************************************************)
(* Universe of the model.                                                  *)
(***************************************************************************)
Guilds == {"g1"}
\* the server keys the document may hold: the bot's guild and another server
Servers == {"g1", "g2"}
\* client.guilds.cache iterates in insertion order
GuildOrder == <<"g1">>
ChannelIds == {"c1", "c2"}
AddonType == "addon-update"
CollectionType == "collection-update"
Types == {AddonType, CollectionType}
\* every id a command may name, in any specification
AllIds == {"1", "2", "3", "4"}
Users == {"u1", "u2"}
\* members with the Administrator permission, or the owner of the guild
Admins == {"u1", "u2"}
\* the gate specification: an administrator and a member without the
\* permission, and ids that are missing (""), not numeric, and 21 digits long
GateUsers == {"u1", "u3"}
LongId == "111111111111111111111"
BadIds == {"", "x1", LongId}
GateItems == {<<AddonType, "1">>, <<CollectionType, "1">>} \cup ({AddonType} \X BadIds)
Digits == {"0", "1", "2", "3", "4", "5", "6", "7", "8", "9"}
\* concurrent invocations of the interval callback that the model follows
Sweeps == {"s1", "s2"}
\* concurrent executions of an add command that the model follows
CmdSlots == {1, 2}

\* the order in which the model hands out the invocations
SweepOrder == <<"s1", "s2">>

\* the sweep specification: one tracked item, two overlapping invocations
SweepItems == {<<AddonType, "1">>}
SweepChannels == {"c1"}
SweepUsers == {"u1"}
SweepSlots == {1}
\* the race specification: two items of one channel, one invocation
RaceItems == {<<AddonType, "1">>, <<CollectionType, "1">>}
MultiItems == {<<AddonType, "1">>, <<CollectionType, "1">>}
MultiTargets == {<<"g1", "c1", AddonType, "1">>, <<"g1", "c2", AddonType, "1">>,
                 <<"g1", "c2", CollectionType, "1">>}
MultiChannels == {"c2"}
RaceSweeps == {"s1"}
\* the command specification: enough collections to fill a channel
CmdItems == {<<CollectionType, "1">>, <<CollectionType, "2">>,
             <<CollectionType, "3">>, <<CollectionType, "4">>}
CmdChannels == {"c1"}

\* the store specification: the operations of the store, called directly
StoreTargets == {<<"g1", "c1", AddonType, "1">>, <<"g1", "c1", CollectionType, "1">>,
                 <<"g1", "c2", AddonType, "1">>, <<"g2", "c1", AddonType, "1">>}
StoreTimes == {1}
\* what data/notifications.json may hold: no file, a file of size 0 or of
\* blanks, text that JSON.parse rejects, the JSON texts null, a number, an
\* array, and an object
FileKinds == {"absent", "empty", "garbage", "null", "number", "array", "object"}

\* largest time_updated (seconds) the remote side reaches
MaxTime == 2
\* number of times the wall clock advances
MaxClockSteps == 1
\* Date.now() (milliseconds) when the bot becomes ready
StartMs == 1000000
\* milliseconds by which one step advances the wall clock
ClockStepMs == 300000

\* the debounce threshold of the sweep, in the unit the code compares in
DebounceMs == 300000
addonChannelLimit == 5
collectionChannelLimit == 3

\* an absent lastUpdated (null or undefined)
Null == -1

VARIABLES
    dataFile,            \* the parsed content of data/notifications.json
    channels,            \* guild.channels.cache: the <<guild, channel>> that exist
    remote,              \* time_updated of each workshop item at Steam
    now,                 \* Date.now()
    sweeps,              \* the invocations of the interval callback
    cmds,                \* the executions of add commands
    activeConfirmations, \* the Map of users with a pending confirmation
    storedAt,            \* history: Date.now() of the last lastUpdated write of an entry
    announced,           \* history: the <<guild, channel, type, id, time>> sent so far
    ev,                  \* history: what the last step did
    file                 \* what data/notifications.json holds: a kind of FileKinds

vars == <<dataFile, channels, remote, now, sweeps, cmds, activeConfirmations,
          storedAt, announced, ev, file>>

(***************************************************************************)
(* The document: guild id -> channel id -> list of {type, id, lastUpdated}.*)
(* A guild's channels keep their insertion order (Object.entries).         *)
(***************************************************************************)
NoGuild == [present |-> FALSE, chans |-> <<>>]
EmptyData == [g \in Servers |-> NoGuild]

Matches(entry, type, id) == entry.type = type /\ entry.id = id

\* index of data[guildId][channelId] among the guild's keys, 0 when absent
ChanPos(data, g, c) ==
    LET chans == data[g].chans
    IN  IF data[g].present /\ \E i \in 1..Len(chans) : chans[i].channel = c
        THEN CHOOSE i \in 1..Len(chans) : chans[i].channel = c
        ELSE 0

\* data[guildId] && data[guildId][channelId]
HasChan(data, g, c) == ChanPos(data, g, c) > 0

ChanList(data, g, c) ==
    IF HasChan(data, g, c) THEN data[g].chans[ChanPos(data, g, c)].list ELSE <<>>

\* index of the first entry with this type and id, 0 when there is none
FindPos(list, type, id) ==
    IF \E i \in 1..Len(list) : Matches(list[i], type, id)
    THEN CHOOSE i \in 1..Len(list) :
            /\ Matches(list[i], type, id)
            /\ \A j \in 1..(i - 1) : ~Matches(list[j], type, id)
    ELSE 0

\* data[guildId][channelId] = list, creating the containers that are missing
PutChan(data, g, c, list) ==
    LET rec == [channel |-> c, list |-> list]
        p == ChanPos(data, g, c)
    IN  IF ~data[g].present
        THEN [data EXCEPT ![g] = [present |-> TRUE, chans |-> <<rec>>]]
        ELSE IF p = 0
        THEN [data EXCEPT ![g].chans = Append(@, rec)]
        ELSE [data EXCEPT ![g].chans[p] = rec]

\* delete data[guildId][channelId]
DelChan(data, g, c) ==
    LET chans == data[g].chans
        Keep(r) == r.channel # c
    IN  [data EXCEPT ![g].chans = SelectSeq(chans, Keep)]

\* if (Object.keys(data[guildId]).length === 0) delete data[guildId]
PruneGuild(data, g) ==
    IF data[g].present /\ Len(data[g].chans) = 0
    THEN [data EXCEPT ![g] = NoGuild]
    ELSE data

\* a lookup that finds every item
isNotificationAlways(data, g, c, type, id) == TRUE

isNotification(data, g, c, type, id) ==
    HasChan(data, g, c) /\ FindPos(ChanList(data, g, c), type, id) > 0

\* an add that returns true without saving the document
addWithoutSave(data, g, c, type, id) ==
    [ret |-> FindPos(ChanList(data, g, c), type, id) = 0, data |-> data]

\* an add that does not look for the entry first
addWithoutLookup(data, g, c, type, id) ==
    [ret |-> TRUE,
     data |-> PutChan(data, g, c,
                 Append(ChanList(data, g, c),
                        [type |-> type, id |-> id, lastUpdated |-> Null]))]

\* the persisted document is written only when the entry is new
addNotification(data, g, c, type, id) ==
    LET list == ChanList(data, g, c)
    IN  IF FindPos(list, type, id) > 0
        THEN [ret |-> FALSE, data |-> data]
        ELSE [ret |-> TRUE,
              data |-> PutChan(data, g, c,
                          Append(list, [type |-> type, id |-> id, lastUpdated |-> Null]))]

\* a remove that saves and returns true whenever the channel is there
removeWithoutCompare(data, g, c, type, id) ==
    IF ~HasChan(data, g, c)
    THEN [ret |-> FALSE, data |-> data]
    ELSE LET Keep(e) == ~Matches(e, type, id)
             filtered == SelectSeq(ChanList(data, g, c), Keep)
         IN  [ret |-> TRUE,
              data |-> PruneGuild(IF Len(filtered) = 0
                                  THEN DelChan(data, g, c)
                                  ELSE PutChan(data, g, c, filtered), g)]

\* a remove that keeps the container of a server without channels
removeWithoutPrune(data, g, c, type, id) ==
    IF ~HasChan(data, g, c)
    THEN [ret |-> FALSE, data |-> data]
    ELSE LET list == ChanList(data, g, c)
             Keep(e) == ~Matches(e, type, id)
             filtered == SelectSeq(list, Keep)
         IN  IF Len(filtered) = Len(list)
             THEN [ret |-> FALSE, data |-> data]
             ELSE [ret |-> TRUE,
                   data |-> IF Len(filtered) = 0
                            THEN DelChan(data, g, c)
                            ELSE PutChan(data, g, c, filtered)]

removeNotification(data, g, c, type, id) ==
    IF ~HasChan(data, g, c)
    THEN [ret |-> FALSE, data |-> data]
    ELSE LET list == ChanList(data, g, c)
             Keep(e) == ~Matches(e, type, id)
             filtered == SelectSeq(list, Keep)
             d1 == IF Len(filtered) = 0
                   THEN DelChan(data, g, c)
                   ELSE PutChan(data, g, c, filtered)
             d2 == PruneGuild(d1, g)
             \* data[guildId]?.[channelId]?.length, undefined when deleted
             newLen == IF HasChan(d2, g, c) THEN Len(ChanList(d2, g, c)) ELSE Null
         IN  IF Len(list) = newLen
             THEN [ret |-> FALSE, data |-> data]
             ELSE [ret |-> TRUE, data |-> d2]

\* a remove-all that empties the list and keeps the key of the channel
removeAllLeavingList(data, g, c) ==
    IF ~HasChan(data, g, c)
    THEN [ret |-> FALSE, data |-> data]
    ELSE [ret |-> TRUE, data |-> PutChan(data, g, c, <<>>)]

\* a remove-all that deletes the server with all its channels
removeAllOfServer(data, g, c) ==
    IF ~HasChan(data, g, c)
    THEN [ret |-> FALSE, data |-> data]
    ELSE [ret |-> TRUE, data |-> [data EXCEPT ![g] = NoGuild]]

removeAllNotifications(data, g, c) ==
    IF ~HasChan(data, g, c)
    THEN [ret |-> FALSE, data |-> data]
    ELSE [ret |-> TRUE, data |-> PruneGuild(DelChan(data, g, c), g)]

\* data[guildId] || {}, as Object.entries lists it
getGuildNotifications(data, g) ==
    IF data[g].present THEN data[g].chans ELSE <<>>

\* a listing that falls back to the first channel of the server
getChannelNotificationsOrFirst(data, g, c) ==
    IF HasChan(data, g, c) \/ ~data[g].present
    THEN ChanList(data, g, c)
    ELSE data[g].chans[1].list

getChannelNotifications(data, g, c) == ChanList(data, g, c)

\* a write that returns false for an entry it does not find, and puts it back
setLastUpdatedRestoring(data, g, c, type, id, timestamp) ==
    LET list == ChanList(data, g, c)
        p == FindPos(list, type, id)
    IN  IF p = 0
        THEN [ret |-> FALSE,
              data |-> PutChan(data, g, c,
                          Append(list, [type |-> type, id |-> id,
                                        lastUpdated |-> timestamp]))]
        ELSE [ret |-> TRUE,
              data |-> PutChan(data, g, c, [list EXCEPT ![p].lastUpdated = timestamp])]

\* a write that creates the entry it does not find
setLastUpdatedCreating(data, g, c, type, id, timestamp) ==
    LET list == ChanList(data, g, c)
        p == FindPos(list, type, id)
    IN  IF p = 0
        THEN [ret |-> TRUE,
              data |-> PutChan(data, g, c,
                          Append(list, [type |-> type, id |-> id,
                                        lastUpdated |-> timestamp]))]
        ELSE [ret |-> TRUE,
              data |-> PutChan(data, g, c, [list EXCEPT ![p].lastUpdated = timestamp])]

\* a write that keeps only the entry it updates
setLastUpdatedDroppingOthers(data, g, c, type, id, timestamp) ==
    LET list == ChanList(data, g, c)
        p == FindPos(list, type, id)
    IN  IF ~HasChan(data, g, c) \/ p = 0
        THEN [ret |-> FALSE, data |-> data]
        ELSE [ret |-> TRUE,
              data |-> PutChan(data, g, c, <<[list[p] EXCEPT !.lastUpdated = timestamp]>>)]

setNotificationLastUpdated(data, g, c, type, id, timestamp) ==
    LET list == ChanList(data, g, c)
        p == FindPos(list, type, id)
    IN  IF ~HasChan(data, g, c) \/ p = 0
        THEN [ret |-> FALSE, data |-> data]
        ELSE [ret |-> TRUE,
              data |-> PutChan(data, g, c, [list EXCEPT ![p].lastUpdated = timestamp])]

getNotificationLastUpdated(data, g, c, type, id) ==
    LET list == ChanList(data, g, c)
        p == FindPos(list, type, id)
    IN  IF ~HasChan(data, g, c) \/ p = 0 THEN Null ELSE list[p].lastUpdated

(***************************************************************************)
(* readData, and the operations of the store called on any document.       *)
(* dataFile is the parsed object; it is EmptyData while the file holds     *)
(* anything that is not an object.                                         *)
(***************************************************************************)
\* ensureDataFile writes {} over a missing or empty file; readData writes {}
\* over blank or unparseable text; any JSON value is returned as parsed
Heal(kind) == IF kind \in {"absent", "empty", "garbage"} THEN "object" ELSE kind

Bool(b) == IF b THEN "true" ELSE "false"

NoEv == [op |-> "none", s |-> "", u |-> "", g |-> "", c |-> "", type |-> "", id |-> "",
         res |-> "", t |-> Null, wrote |-> FALSE, ret |-> ""]

\* what a store operation yields on the value readData returned: r is what
\* it yields on an object.  null[guildId] throws; on a number or an array
\* data[guildId] is undefined, and addNotification then assigns
\* data[guildId] = {}: ignored on a number, so that data[guildId][channelId]
\* throws, and kept as a property of the array, which JSON.stringify drops
OnFile(kind, op, r) ==
    IF kind = "null"
    THEN [ret |-> "throws", data |-> EmptyData]
    ELSE IF kind = "number" /\ op = "addNotification"
    THEN [ret |-> "throws", data |-> EmptyData]
    ELSE IF kind = "array" /\ op = "addNotification"
    THEN [ret |-> "true", data |-> EmptyData]
    ELSE r

StoreEv(op, g, c, type, id, ret) ==
    [NoEv EXCEPT !.op = op, !.g = g, !.c = c, !.type = type, !.id = id, !.ret = ret]

CallIsNotification(g, c, type, id) ==
    /\ LET r == [ret |-> Bool(isNotification(dataFile, g, c, type, id)), data |-> dataFile]
           o == OnFile(file, "isNotification", r)
       IN  /\ dataFile' = o.data
           /\ ev' = StoreEv("isNotification", g, c, type, id, o.ret)
    /\ file' = Heal(file)
    /\ UNCHANGED <<channels, remote, now, sweeps, cmds, activeConfirmations,
                   storedAt, announced>>

CallAddNotification(g, c, type, id) ==
    /\ LET a == addNotification(dataFile, g, c, type, id)
           o == OnFile(file, "addNotification", [ret |-> Bool(a.ret), data |-> a.data])
       IN  /\ dataFile' = o.data
           /\ ev' = StoreEv("addNotification", g, c, type, id, o.ret)
    /\ file' = Heal(file)
    /\ UNCHANGED <<channels, remote, now, sweeps, cmds, activeConfirmations,
                   storedAt, announced>>

CallRemoveNotification(g, c, type, id) ==
    /\ LET a == removeNotification(dataFile, g, c, type, id)
           o == OnFile(file, "removeNotification", [ret |-> Bool(a.ret), data |-> a.data])
       IN  /\ dataFile' = o.data
           /\ ev' = StoreEv("removeNotification", g, c, type, id, o.ret)
    /\ file' = Heal(file)
    /\ UNCHANGED <<channels, remote, now, sweeps, cmds, activeConfirmations,
                   storedAt, announced>>

CallRemoveAllNotifications(g, c) ==
    /\ LET a == removeAllNotifications(dataFile, g, c)
           o == OnFile(file, "removeAllNotifications", [ret |-> Bool(a.ret), data |-> a.data])
       IN  /\ dataFile' = o.data
           /\ ev' = StoreEv("removeAllNotifications", g, c, "", "", o.ret)
    /\ file' = Heal(file)
    /\ UNCHANGED <<channels, remote, now, sweeps, cmds, activeConfirmations,
                   storedAt, announced>>

\* ret tells whether the returned container is empty
CallGetGuildNotifications(g) ==
    /\ LET list == getGuildNotifications(dataFile, g)
           r == [ret |-> IF Len(list) = 0 THEN "empty" ELSE "nonempty", data |-> dataFile]
           o == OnFile(file, "getGuildNotifications", r)
       IN  /\ dataFile' = o.data
           /\ ev' = StoreEv("getGuildNotifications", g, "", "", "", o.ret)
    /\ file' = Heal(file)
    /\ UNCHANGED <<channels, remote, now, sweeps, cmds, activeConfirmations,
                   storedAt, announced>>

CallGetChannelNotifications(g, c) ==
    /\ LET list == getChannelNotifications(dataFile, g, c)
           r == [ret |-> IF Len(list) = 0 THEN "empty" ELSE "nonempty", data |-> dataFile]
           o == OnFile(file, "getChannelNotifications", r)
       IN  /\ dataFile' = o.data
           /\ ev' = StoreEv("getChannelNotifications", g, c, "", "", o.ret)
    /\ file' = Heal(file)
    /\ UNCHANGED <<channels, remote, now, sweeps, cmds, activeConfirmations,
                   storedAt, announced>>

CallSetNotificationLastUpdated(g, c, type, id, timestamp) ==
    /\ LET a == setNotificationLastUpdated(dataFile, g, c, type, id, timestamp)
           o == OnFile(file, "setNotificationLastUpdated",
                       [ret |-> Bool(a.ret), data |-> a.data])
       IN  /\ dataFile' = o.data
           /\ ev' = [StoreEv("setNotificationLastUpdated", g, c, type, id, o.ret)
                        EXCEPT !.t = timestamp]
           /\ storedAt' = IF o.ret = "true" /\ <<g, c, type, id>> \in DOMAIN storedAt
                          THEN [storedAt EXCEPT ![<<g, c, type, id>>] = now]
                          ELSE storedAt
    /\ file' = Heal(file)
    /\ UNCHANGED <<channels, remote, now, sweeps, cmds, activeConfirmations, announced>>

\* ret tells whether null was returned, t is the value returned
CallGetNotificationLastUpdated(g, c, type, id) ==
    /\ LET v == getNotificationLastUpdated(dataFile, g, c, type, id)
           r == [ret |-> IF v = Null THEN "null" ELSE "value", data |-> dataFile]
           o == OnFile(file, "getNotificationLastUpdated", r)
       IN  /\ dataFile' = o.data
           /\ ev' = [StoreEv("getNotificationLastUpdated", g, c, type, id, o.ret)
                        EXCEPT !.t = IF o.ret = "value" THEN v ELSE Null]
    /\ file' = Heal(file)
    /\ UNCHANGED <<channels, remote, now, sweeps, cmds, activeConfirmations,
                   storedAt, announced>>

\* the file is replaced from outside the program
Corrupt(kind) ==
    /\ kind # "object"
    /\ file' = kind
    /\ dataFile' = EmptyData
    /\ ev' = NoEv
    /\ UNCHANGED <<channels, remote, now, sweeps, cmds, activeConfirmations,
                   storedAt, announced>>

(***************************************************************************)
(* The reconciliation sweep: index.js, the setInterval callback.           *)
(***************************************************************************)
IdleSweep == [pc |-> "idle", gi |-> 0, snap |-> <<>>, ci |-> 0, ni |-> 0,
              lastUpdated |-> Null, data |-> Null]

Key(g, c, type, id) == <<g, c, type, id>>
Keys == Guilds \X ChannelIds \X Types \X AllIds

\* notifications.forEach(n => removeNotification(guild, channel, n.type, n.id))
RECURSIVE RemoveEach(_, _, _, _)
RemoveEach(data, g, c, list) ==
    IF Len(list) = 0
    THEN data
    ELSE RemoveEach(removeNotification(data, g, c, Head(list).type, Head(list).id).data,
                    g, c, Tail(list))

\* The synchronous run of the three nested loops from the position
\* (guild gi, channel ci of the snapshot, item ni; ni = 0: the channel has
\* not been looked up yet) to the next await getWorkshopAddonData, or to the
\* end of the callback.  Yields the sweep's new position and the document.
RECURSIVE Scan(_, _, _, _, _)
Scan(gi, snap, ci, ni, data) ==
    IF gi > Len(GuildOrder)
    THEN [sw |-> IdleSweep, data |-> data]
    \* the store calls of the loops are outside the try of an item: when the
    \* document is null they throw and the callback rejects
    ELSE IF file = "null"
    THEN [sw |-> IdleSweep, data |-> data]
    ELSE IF ci > Len(snap)
    THEN IF gi + 1 > Len(GuildOrder)
         THEN [sw |-> IdleSweep, data |-> data]
         ELSE Scan(gi + 1, getGuildNotifications(data, GuildOrder[gi + 1]), 1, 0, data)
    ELSE LET g == GuildOrder[gi]
             c == snap[ci].channel
             list == snap[ci].list
         IN  IF ni = 0
             THEN IF <<g, c>> \notin channels
                  THEN Scan(gi, snap, ci + 1, 0, RemoveEach(data, g, c, list))
                  ELSE Scan(gi, snap, ci, 1, data)
             ELSE IF ni > Len(list)
             THEN Scan(gi, snap, ci + 1, 0, data)
             ELSE [sw |-> [pc |-> "fetch", gi |-> gi, snap |-> snap, ci |-> ci, ni |-> ni,
                           lastUpdated |-> getNotificationLastUpdated(
                                               data, g, c, list[ni].type, list[ni].id),
                           data |-> Null],
                   data |-> data]

SweepGuild(sw) == GuildOrder[sw.gi]
SweepChannel(sw) == sw.snap[sw.ci].channel
SweepItem(sw) == sw.snap[sw.ci].list[sw.ni]

\* the loops go on from the item of sw, to a store call
More(sw) ==
    \/ sw.ni < Len(sw.snap[sw.ci].list)
    \/ sw.ci < Len(sw.snap)
    \/ sw.gi < Len(GuildOrder)

\* !lastUpdated
Falsy(lastUpdated) == lastUpdated = Null \/ lastUpdated = 0

\* a decision that announces the first observation too
decideWithoutSeed(lastUpdated, timeUpdated, nowMs) ==
    IF Falsy(lastUpdated) \/ (timeUpdated > lastUpdated /\ timeUpdated > 0)
    THEN "announce"
    ELSE "skip"

\* what the sweep does with a fetched item: "seed" (first observation),
\* "announce", or "skip"
Decide(lastUpdated, timeUpdated, nowMs) ==
    IF Falsy(lastUpdated)
    THEN "seed"
    ELSE LET addonUpdateTime == timeUpdated
             timeDifference == nowMs - lastUpdated
         IN  IF addonUpdateTime > lastUpdated /\ addonUpdateTime > 0
                /\ timeDifference >= DebounceMs
             THEN "announce"
             ELSE "skip"

\* a fetch that failed handled as a first observation
outcomeSeedingOnFailure(res, lastUpdated, timeUpdated, nowMs) ==
    IF res = "data" THEN Decide(lastUpdated, timeUpdated, nowMs) ELSE "seed"

\* try { data = await getWorkshopAddonData(id); if (data) {...} else warn }
\* catch { log }: only a fetch that yields the item's details is decided on
Outcome(res, lastUpdated, timeUpdated, nowMs) ==
    IF res = "data" THEN Decide(lastUpdated, timeUpdated, nowMs) ELSE "skip"

\* the interval fires: a new invocation runs up to its first await
TimerTick(s) ==
    /\ sweeps[s].pc = "idle"
    /\ \A i \in 1..Len(SweepOrder) :
          SweepOrder[i] = s => \A j \in 1..(i - 1) : sweeps[SweepOrder[j]].pc # "idle"
    /\ LET r == Scan(1, getGuildNotifications(dataFile, GuildOrder[1]), 1, 0, dataFile)
       IN  /\ sweeps' = [sweeps EXCEPT ![s] = r.sw]
           /\ dataFile' = r.data
    /\ ev' = [NoEv EXCEPT !.op = "tick", !.s = s]
    /\ file' = Heal(file)
    /\ UNCHANGED <<channels, remote, now, cmds, activeConfirmations, storedAt, announced>>

\* await getWorkshopAddonData(id) settles: res is "data" (the item's details),
\* "nodata" (false) or "throw"
FetchDone(s, res) ==
    /\ sweeps[s].pc = "fetch"
    /\ LET sw == sweeps[s]
           g == SweepGuild(sw)
           c == SweepChannel(sw)
           n == SweepItem(sw)
           t == remote[n.id]
           decided == Outcome(res, sw.lastUpdated, t, now)
           \* setNotificationLastUpdated throws on a null document, inside
           \* the try of the item: the catch logs and the loop goes on
           what == IF file = "null" THEN "skip" ELSE decided
           w == IF what \in {"seed", "announce"}
                THEN setNotificationLastUpdated(dataFile, g, c, n.type, n.id, t)
                ELSE [ret |-> FALSE, data |-> dataFile]
           r == Scan(sw.gi, sw.snap, sw.ci, sw.ni + 1, w.data)
       IN  /\ IF what = "announce"
              THEN /\ sweeps' = [sweeps EXCEPT ![s] = [sw EXCEPT !.pc = "account", !.data = t]]
                   /\ dataFile' = w.data
              ELSE /\ sweeps' = [sweeps EXCEPT ![s] = r.sw]
                   /\ dataFile' = r.data
           /\ storedAt' = IF w.ret
                          THEN [storedAt EXCEPT ![Key(g, c, n.type, n.id)] = now]
                          ELSE storedAt
           /\ ev' = [NoEv EXCEPT !.op = what, !.s = s, !.g = g, !.c = c,
                                 !.type = n.type, !.id = n.id, !.res = res,
                                 !.t = IF res = "data" THEN t ELSE Null,
                                 !.wrote = w.ret]
    /\ file' = IF \/ Outcome(res, sweeps[s].lastUpdated,
                            remote[SweepItem(sweeps[s]).id], now) # "skip"
                  \/ More(sweeps[s])
               THEN Heal(file)
               ELSE file
    /\ UNCHANGED <<channels, remote, now, cmds, activeConfirmations, announced>>

\* await getAccountDetails(steamId64) settles (it never rejects); the embed is
\* built and client.channels.cache.get(channelId)?.send(...) is called
AccountDone(s) ==
    /\ sweeps[s].pc = "account"
    /\ LET sw == sweeps[s]
           g == SweepGuild(sw)
           c == SweepChannel(sw)
           n == SweepItem(sw)
           r == Scan(sw.gi, sw.snap, sw.ci, sw.ni + 1, dataFile)
       IN  IF <<g, c>> \in channels
           THEN /\ sweeps' = [sweeps EXCEPT ![s].pc = "send"]
                /\ announced' = announced \cup {<<g, c, n.type, n.id, sw.data>>}
                /\ ev' = [NoEv EXCEPT !.op = "emit", !.s = s, !.g = g, !.c = c,
                                      !.type = n.type, !.id = n.id, !.t = sw.data]
                /\ UNCHANGED dataFile
           ELSE /\ sweeps' = [sweeps EXCEPT ![s] = r.sw]
                /\ dataFile' = r.data
                /\ ev' = [NoEv EXCEPT !.op = "noemit", !.s = s]
                /\ UNCHANGED announced
    /\ file' = IF <<SweepGuild(sweeps[s]), SweepChannel(sweeps[s])>> \notin channels
                  /\ More(sweeps[s])
               THEN Heal(file)
               ELSE file
    /\ UNCHANGED <<channels, remote, now, cmds, activeConfirmations, storedAt>>

\* await channel.send(...) settles; a rejection is logged
SendDone(s, ok) ==
    /\ sweeps[s].pc = "send"
    /\ LET sw == sweeps[s]
           n == SweepItem(sw)
           r == Scan(sw.gi, sw.snap, sw.ci, sw.ni + 1, dataFile)
       IN  /\ sweeps' = [sweeps EXCEPT ![s] = r.sw]
           /\ dataFile' = r.data
           /\ ev' = [NoEv EXCEPT !.op = IF ok THEN "sent" ELSE "sendfail", !.s = s,
                                 !.g = SweepGuild(sw), !.c = SweepChannel(sw),
                                 !.type = n.type, !.id = n.id, !.t = sw.data]
    /\ file' = IF More(sweeps[s]) THEN Heal(file) ELSE file
    /\ UNCHANGED <<channels, remote, now, cmds, activeConfirmations, storedAt, announced>>

(***************************************************************************)
(* The environment.                                                        *)
(***************************************************************************)
\* the item is updated on the workshop
RemoteUpdate(id) ==
    /\ remote[id] < MaxTime
    /\ remote' = [remote EXCEPT ![id] = @ + 1]
    /\ ev' = NoEv
    /\ UNCHANGED <<file, dataFile, channels, now, sweeps, cmds, activeConfirmations,
                   storedAt, announced>>

AdvanceClock ==
    /\ now < StartMs + MaxClockSteps * ClockStepMs
    /\ now' = now + ClockStepMs
    /\ ev' = NoEv
    /\ UNCHANGED <<file, dataFile, channels, remote, sweeps, cmds, activeConfirmations,
                   storedAt, announced>>

\* a channel of a guild is deleted
ChannelDelete(g, c) ==
    /\ <<g, c>> \in channels
    /\ channels' = channels \ {<<g, c>>}
    /\ ev' = NoEv
    /\ UNCHANGED <<file, dataFile, remote, now, sweeps, cmds, activeConfirmations,
                   storedAt, announced>>

(***************************************************************************)
(* The commands: commands/add-addon-update.js, add-collection-update.js,   *)
(* remove-addon-update.js, remove-collection-update.js,                    *)
(* remove-all-update.js, and sendConfirmationDialogue of modules/common.js.*)
(***************************************************************************)
IdleCmd == [pc |-> "idle", user |-> "", g |-> "", c |-> "", type |-> "", id |-> "",
            err |-> FALSE, choice |-> "", by |-> "", own |-> FALSE, winner |-> FALSE]

\* the characters of an id of the model
IdChars(id) ==
    CASE id = "" -> <<>>
      [] id = "x1" -> <<"x", "1">>
      [] id = LongId -> [i \in 1..21 |-> "1"]
      [] OTHER -> <<id>>

\* id, 1 to 20 characters, and /^\d+$/
ValidId(id) ==
    LET chars == IdChars(id)
    IN  /\ Len(chars) >= 1 /\ Len(chars) <= 20
        /\ \A i \in 1..Len(chars) : chars[i] \in Digits

\* a check that lets every member pass
notPermittedNobody(u) == FALSE

\* !permissions.has(Administrator) && guild.ownerId !== user.id
NotPermitted(u) == u \notin Admins

ChannelLimit(type) ==
    IF type = AddonType THEN addonChannelLimit ELSE collectionChannelLimit

\* channelNotifications.filter(n => n.type === type).length
CountOfType(list, type) ==
    Cardinality({i \in 1..Len(list) : list[i].type = type})

\* execute() starts: permission and id checks, then await fetch(...)
StartAdd(k, u, g, c, type, id) ==
    /\ cmds[k].pc = "idle"
    /\ <<g, c>> \in channels
    /\ cmds' = [cmds EXCEPT ![k] =
                   [IdleCmd EXCEPT !.pc = "fetch", !.user = u, !.g = g, !.c = c,
                                   !.type = type, !.id = id,
                                   !.err = (NotPermitted(u) \/ ~ValidId(id))]]
    /\ ev' = NoEv
    /\ UNCHANGED <<file, dataFile, channels, remote, now, sweeps, activeConfirmations,
                   storedAt, announced>>

\* the Steam requests of execute() settle: res is "throw" (execute rejects),
\* "notfound" or "found"; then the capacity check and, with no error,
\* sendConfirmationDialogue up to its await interaction.reply(...)
AddFetched(k, res) ==
    /\ cmds[k].pc = "fetch"
    /\ LET cmd == cmds[k]
           full == CountOfType(getChannelNotifications(dataFile, cmd.g, cmd.c), cmd.type)
                       >= ChannelLimit(cmd.type)
           errors == cmd.err \/ res = "notfound" \/ full
       IN  IF res = "throw" \/ errors \/ cmd.user \in activeConfirmations
           THEN cmds' = [cmds EXCEPT ![k] = IdleCmd]
           ELSE cmds' = [cmds EXCEPT ![k].pc = "reply"]
    /\ ev' = NoEv
    /\ UNCHANGED <<file, dataFile, channels, remote, now, sweeps, activeConfirmations,
                   storedAt, announced>>

\* await interaction.reply(...) settles; then activeConfirmations.set(userId, true)
\* and await interaction.channel.awaitMessageComponent(...)
ReplyDone(k, ok) ==
    /\ cmds[k].pc = "reply"
    /\ IF ok
       THEN /\ cmds' = [cmds EXCEPT ![k].pc = "prompt"]
            /\ activeConfirmations' = activeConfirmations \cup {cmds[k].user}
       ELSE /\ cmds' = [cmds EXCEPT ![k] = IdleCmd]
            /\ UNCHANGED activeConfirmations
    /\ ev' = NoEv
    /\ UNCHANGED <<file, dataFile, channels, remote, now, sweeps, storedAt, announced>>

\* the collectors a button press of user u in channel c resolves: the filter
\* tests the user and the custom id, which is the same for every prompt of
\* one command
Collectors(u, g, c, type) ==
    {k \in CmdSlots : /\ cmds[k].pc = "prompt"
                      /\ cmds[k].user = u /\ cmds[k].g = g /\ cmds[k].c = c
                      /\ cmds[k].type = type}

\* the user presses Confirm or Cancel on the prompt of command m: the
\* collectors listen on the channel, not on a message, so every matching
\* collector resolves with the same component interaction, which only one
\* update() can acknowledge (w)
Click(u, g, c, type, choice, w, m) ==
    /\ <<g, c>> \in channels
    /\ w \in Collectors(u, g, c, type)
    /\ m \in Collectors(u, g, c, type)
    /\ cmds' = [k \in CmdSlots |->
                   IF k \in Collectors(u, g, c, type)
                   THEN [cmds[k] EXCEPT !.pc = "update", !.choice = choice,
                                        !.by = u, !.own = (k = m),
                                        !.winner = (k = w)]
                   ELSE cmds[k]]
    /\ ev' = NoEv
    /\ UNCHANGED <<file, dataFile, channels, remote, now, sweeps, activeConfirmations,
                   storedAt, announced>>

\* awaitMessageComponent rejects (60 seconds passed, or the channel is gone):
\* the catch block awaits sentMessage.edit(...)
Timeout(k) ==
    /\ cmds[k].pc = "prompt"
    /\ cmds' = [cmds EXCEPT ![k].pc = "edit"]
    /\ ev' = NoEv
    /\ UNCHANGED <<file, dataFile, channels, remote, now, sweeps, activeConfirmations,
                   storedAt, announced>>

\* sendConfirmationDialogue returns true only for the press of the button
\* whose custom id ends in -confirm
Confirmed(cmd) == cmd.choice = "confirm"

\* await confirmation.update(...) settles.  Fulfilled: the pending entry is
\* deleted and, on Confirm, execute() checks isNotification and adds.
\* Rejected: the catch block awaits sentMessage.edit(...)
UpdateDone(k, ok) ==
    /\ cmds[k].pc = "update"
    /\ ok => cmds[k].winner
    /\ LET cmd == cmds[k]
           adds == /\ Confirmed(cmd)
                   /\ ~isNotification(dataFile, cmd.g, cmd.c, cmd.type, cmd.id)
       IN  IF ok
           THEN /\ cmds' = [cmds EXCEPT ![k] = IdleCmd]
                /\ activeConfirmations' = activeConfirmations \ {cmd.user}
                /\ dataFile' =
                     IF adds
                     THEN addNotification(dataFile, cmd.g, cmd.c, cmd.type, cmd.id).data
                     ELSE dataFile
                /\ ev' = IF adds
                         THEN [NoEv EXCEPT !.op = "add", !.g = cmd.g, !.c = cmd.c,
                                           !.type = cmd.type, !.id = cmd.id]
                         ELSE NoEv
           ELSE /\ cmds' = [cmds EXCEPT ![k].pc = "edit"]
                /\ ev' = NoEv
                /\ UNCHANGED <<activeConfirmations, dataFile>>
    /\ UNCHANGED <<file, channels, remote, now, sweeps, storedAt, announced>>

\* a catch block that returns without deleting the pending entry
editDoneKeepingEntry(k) ==
    /\ cmds[k].pc = "edit"
    /\ cmds' = [cmds EXCEPT ![k] = IdleCmd]
    /\ ev' = NoEv
    /\ UNCHANGED <<file, dataFile, channels, remote, now, sweeps, activeConfirmations,
                   storedAt, announced>>

\* await sentMessage.edit(...) settles either way: the pending entry is deleted
\* and sendConfirmationDialogue returns false
EditDone(k) ==
    /\ cmds[k].pc = "edit"
    /\ cmds' = [cmds EXCEPT ![k] = IdleCmd]
    /\ activeConfirmations' = activeConfirmations \ {cmds[k].user}
    /\ ev' = NoEv
    /\ UNCHANGED <<file, dataFile, channels, remote, now, sweeps, storedAt, announced>>

\* remove-addon-update / remove-collection-update: execute() up to its reply
RemoveCmd(u, g, c, type, id) ==
    /\ <<g, c>> \in channels
    /\ LET errors == \/ NotPermitted(u)
                     \/ ~ValidId(id)
                     \/ ~isNotification(dataFile, g, c, type, id)
       IN  /\ dataFile' = IF errors
                          THEN dataFile
                          ELSE removeNotification(dataFile, g, c, type, id).data
           /\ ev' = [NoEv EXCEPT !.op = IF errors THEN "removeError" ELSE "remove",
                                 !.u = u, !.g = g, !.c = c, !.type = type, !.id = id]
    /\ UNCHANGED <<file, channels, remote, now, sweeps, cmds, activeConfirmations,
                   storedAt, announced>>

\* remove-all-update: execute() up to its reply
RemoveAllCmd(u, g, c) ==
    /\ <<g, c>> \in channels
    /\ LET list == getChannelNotifications(dataFile, g, c)
           errors == \/ NotPermitted(u)
                     \/ CountOfType(list, AddonType) < 1
                     \/ CountOfType(list, CollectionType) < 1
       IN  /\ dataFile' = IF errors
                          THEN dataFile
                          ELSE removeAllNotifications(dataFile, g, c).data
           /\ ev' = [NoEv EXCEPT !.op = IF errors THEN "removeAllError" ELSE "removeAll",
                                 !.u = u, !.g = g, !.c = c]
    /\ UNCHANGED <<file, channels, remote, now, sweeps, cmds, activeConfirmations,
                   storedAt, announced>>

(***************************************************************************)
(* Specifications.                                                         *)
(***************************************************************************)
ItemIds(items) == {it[2] : it \in items}

\* nothing is tracked, nothing is in progress
InitRest ==
    /\ dataFile = EmptyData
    /\ remote = [id \in AllIds |-> 0]
    /\ now = StartMs
    /\ sweeps = [s \in Sweeps |-> IdleSweep]
    /\ cmds = [k \in CmdSlots |-> IdleCmd]
    /\ activeConfirmations = {}
    /\ storedAt = [key \in Keys |-> Null]
    /\ announced = {}
    /\ ev = NoEv

\* the document is there (ensureDataFile), the watched channel exists
Init ==
    /\ InitRest
    /\ channels = Guilds \X SweepChannels
    /\ file = "object"

SweepNext(invocations) ==
    \/ \E s \in invocations : TimerTick(s)
    \/ \E s \in invocations, res \in {"data", "nodata", "throw"} : FetchDone(s, res)
    \/ \E s \in invocations : AccountDone(s)
    \/ \E s \in invocations, ok \in BOOLEAN : SendDone(s, ok)

AddNext(slots, users, chans, items) ==
    \/ \E k \in slots, u \in users, g \in Guilds, c \in chans, it \in items :
          StartAdd(k, u, g, c, it[1], it[2])
    \/ \E k \in slots, res \in {"throw", "notfound", "found"} : AddFetched(k, res)
    \/ \E k \in slots, ok \in BOOLEAN : ReplyDone(k, ok)
    \/ \E u \in users, g \in Guilds, c \in chans, type \in Types,
          choice \in {"confirm", "cancel"}, w \in slots, m \in slots :
             Click(u, g, c, type, choice, w, m)
    \/ \E k \in slots : Timeout(k)
    \/ \E k \in slots, ok \in BOOLEAN : UpdateDone(k, ok)
    \/ \E k \in slots : EditDone(k)

RemoveNext(users, chans, items) ==
    \/ \E u \in users, g \in Guilds, c \in chans, it \in items :
          RemoveCmd(u, g, c, it[1], it[2])
    \/ \E u \in users, g \in Guilds, c \in chans : RemoveAllCmd(u, g, c)

CommandNext(slots, users, chans, items) ==
    \/ AddNext(slots, users, chans, items)
    \/ RemoveNext(users, chans, items)

\* sweeps that may overlap, and the commands of one user on one item
Next ==
    \/ SweepNext(Sweeps)
    \/ \E id \in ItemIds(SweepItems) : RemoteUpdate(id)
    \/ AdvanceClock
    \/ \E g \in Guilds, c \in SweepChannels : ChannelDelete(g, c)
    \/ CommandNext(SweepSlots, SweepUsers, SweepChannels, SweepItems)

Spec == Init /\ [][Next]_vars

\* one sweep at a time, and the commands of one user on two items
RaceNext ==
    \/ SweepNext(RaceSweeps)
    \/ \E id \in ItemIds(RaceItems) : RemoteUpdate(id)
    \/ CommandNext(SweepSlots, SweepUsers, SweepChannels, RaceItems)

RaceSpec == Init /\ [][RaceNext]_vars

\* the add commands of two users, no sweep
CmdNext == AddNext(CmdSlots, Users, CmdChannels, CmdItems)

CmdSpec == Init /\ [][CmdNext]_vars

\* the commands of an administrator and of a member without the permission,
\* on valid and on invalid ids
GateNext == CommandNext(SweepSlots, GateUsers, SweepChannels, GateItems)

GateSpec == Init /\ [][GateNext]_vars

\* one sweep at a time and the add command of one user on the watched item:
\* each sweep ends before the timer fires again, nothing is removed
ScenarioNext ==
    \/ SweepNext(RaceSweeps)
    \/ \E id \in ItemIds(SweepItems) : RemoteUpdate(id)
    \/ AdvanceClock
    \/ AddNext(SweepSlots, SweepUsers, SweepChannels, SweepItems)

ScenarioSpec == Init /\ [][ScenarioNext]_vars

\* the mutating operations of the store, called directly
StoreWrites(targets) ==
    \/ \E k \in targets : CallAddNotification(k[1], k[2], k[3], k[4])
    \/ \E k \in targets : CallRemoveNotification(k[1], k[2], k[3], k[4])
    \/ \E k \in targets : CallRemoveAllNotifications(k[1], k[2])
    \/ \E k \in targets, t \in StoreTimes :
          CallSetNotificationLastUpdated(k[1], k[2], k[3], k[4], t)

\* two users adding the watched item, and the mutating operations of the
\* store on it, while a sweep makes its first observations of the item
UniqNext ==
    \/ \E s \in RaceSweeps : TimerTick(s)
    \/ \E s \in RaceSweeps, res \in {"data", "nodata", "throw"} : FetchDone(s, res)
    \/ AddNext(CmdSlots, Users, SweepChannels, SweepItems)
    \/ StoreWrites({<<g, c, it[1], it[2]>> :
                        g \in Guilds, c \in SweepChannels, it \in SweepItems})

UniqSpec == Init /\ [][UniqNext]_vars

\* the operations of the store called directly, on any document
StoreInit ==
    /\ InitRest
    /\ channels = Servers \X ChannelIds
    /\ file \in FileKinds

StoreNext ==
    \/ \E k \in StoreTargets : CallIsNotification(k[1], k[2], k[3], k[4])
    \/ \E k \in StoreTargets : CallAddNotification(k[1], k[2], k[3], k[4])
    \/ \E k \in StoreTargets : CallRemoveNotification(k[1], k[2], k[3], k[4])
    \/ \E k \in StoreTargets : CallRemoveAllNotifications(k[1], k[2])
    \/ \E k \in StoreTargets : CallGetGuildNotifications(k[1])
    \/ \E k \in StoreTargets : CallGetChannelNotifications(k[1], k[2])
    \/ \E k \in StoreTargets, t \in StoreTimes :
          CallSetNotificationLastUpdated(k[1], k[2], k[3], k[4], t)
    \/ \E k \in StoreTargets : CallGetNotificationLastUpdated(k[1], k[2], k[3], k[4])
    \/ \E kind \in FileKinds : Corrupt(kind)

StoreSpec == StoreInit /\ [][StoreNext]_vars

\* both channels exist
MultiInit ==
    /\ InitRest
    /\ channels = Guilds \X ChannelIds
    /\ file = "object"

\* one sweep at a time over two channels: items are added in the channels
\* that exist (the store call of the add command), the second channel is
\* deleted, the watched item is updated, and the document is replaced by
\* the JSON value null
MultiNext ==
    \/ SweepNext(RaceSweeps)
    \/ \E k \in MultiTargets :
          <<k[1], k[2]>> \in channels /\ CallAddNotification(k[1], k[2], k[3], k[4])
    \/ \E g \in Guilds, c \in MultiChannels : ChannelDelete(g, c)
    \/ \E id \in ItemIds(MultiItems) : RemoteUpdate(id)
    \/ Corrupt("null")

MultiSpec == MultiInit /\ [][MultiNext]_vars

\* the add commands of two users on the watched item
PendingNext == AddNext(CmdSlots, Users, SweepChannels, SweepItems)

\* the 60 seconds of a prompt pass, and the awaits of confirmation.update
\* and sentMessage.edit settle
PendingFairness ==
    \A k \in CmdSlots :
       /\ WF_vars(Timeout(k))
       /\ WF_vars(\E ok \in BOOLEAN : UpdateDone(k, ok))
       /\ WF_vars(EditDone(k))

PendingSpec == Init /\ [][PendingNext]_vars /\ PendingFairness

\* the timer keeps firing, fetches keep succeeding, and the awaits of an
\* announcement settle
Fairness ==
    /\ WF_vars(\E s \in Sweeps : TimerTick(s))
    /\ \A s \in Sweeps :
          /\ SF_vars(FetchDone(s, "data"))
          /\ WF_vars(AccountDone(s))
          /\ WF_vars(\E ok \in BOOLEAN : SendDone(s, ok))
FairSpec == Spec /\ Fairness

(***************************************************************************)
(* Properties.                                                             *)
(***************************************************************************)
Tracked(data, key) == isNotification(data, key[1], key[2], key[3], key[4])
Baseline(data, key) == getNotificationLastUpdated(data, key[1], key[2], key[3], key[4])
EvKey(e) == Key(e.g, e.c, e.type, e.id)
\* the step settled a fetch of the sweep with the item's details
Fetched(e) == e.op \in {"seed", "announce", "skip"} /\ e.res = "data"
Running == {s \in Sweeps : sweeps[s].pc # "idle"}

\* C1 (for a positive baseline): a sweep step that fetches T' > T less than
\* 300 seconds after the baseline T of the entry was stored does not announce
\* and leaves the baseline at T.
C1_Debounce ==
    [][\A key \in Keys :
          (/\ Fetched(ev') /\ EvKey(ev') = key
           /\ Tracked(dataFile, key)
           /\ Baseline(dataFile, key) > 0
           /\ ev'.t > Baseline(dataFile, key)
           /\ now < storedAt[key] + DebounceMs)
          => (/\ ev'.op # "announce"
              /\ Baseline(dataFile', key) = Baseline(dataFile, key))]_vars

\* C2: a remote timestamp of an entry is sent to its channel at most once, and
\* a failed send leaves the entry's baseline as it is.
C2_AtMostOnce ==
    [][/\ ev'.op = "emit" => <<ev'.g, ev'.c, ev'.type, ev'.id, ev'.t>> \notin announced
       /\ ev'.op = "sendfail" =>
             Baseline(dataFile', EvKey(ev')) = Baseline(dataFile, EvKey(ev'))]_vars

\* C3: at most one invocation of the sweep is in progress.
C3_NoOverlap == Cardinality(Running) <= 1

\* C5: every channel holds at most 5 addon-update and at most 3
\* collection-update entries.
C5_Capacity ==
    \A g \in Guilds, c \in ChannelIds :
        /\ CountOfType(ChanList(dataFile, g, c), AddonType) <= addonChannelLimit
        /\ CountOfType(ChanList(dataFile, g, c), CollectionType) <= collectionChannelLimit

\* C6: a user has at most one confirmation prompt that is shown and not yet
\* resolved.
C6_OnePrompt ==
    \A u \in Users :
        Cardinality({k \in CmdSlots : /\ cmds[k].user = u
                                      /\ cmds[k].pc \in {"prompt", "update", "edit"}}) <= 1

\* C7: a sweep step that fetches the details of an entry with no
\* lastUpdated does not announce and sets lastUpdated to the fetched value.
C7_FirstObservation ==
    [][\A key \in Keys :
          (/\ Fetched(ev') /\ EvKey(ev') = key
           /\ Tracked(dataFile, key)
           /\ Baseline(dataFile, key) = Null)
          => (/\ ev'.op # "announce"
              /\ Baseline(dataFile', key) = ev'.t)]_vars

\* C8 (for a positive baseline): a sweep step that fetches T' > T for an
\* entry with baseline T whose channel exists, at least 300 seconds after T
\* was stored, sets the baseline to T' and goes on to announce.
C8_AnnounceWhenDue ==
    [][\A key \in Keys :
          (/\ Fetched(ev') /\ EvKey(ev') = key
           /\ Tracked(dataFile, key)
           /\ Baseline(dataFile, key) > 0
           /\ ev'.t > Baseline(dataFile, key)
           /\ <<key[1], key[2]>> \in channels
           /\ now >= storedAt[key] + DebounceMs)
          => (/\ ev'.op = "announce"
              /\ Baseline(dataFile', key) = ev'.t)]_vars

\* C9: an announcing sweep step fetched a timestamp greater than the entry's
\* baseline, and a step that fetched one not greater than the baseline
\* neither announces nor changes the baseline.
C9_NoStaleAnnouncement ==
    [][\A key \in Keys :
          (/\ Fetched(ev') /\ EvKey(ev') = key
           /\ Tracked(dataFile, key)
           /\ Baseline(dataFile, key) # Null)
          => (/\ ev'.op = "announce" => ev'.t > Baseline(dataFile, key)
              /\ ev'.t <= Baseline(dataFile, key) =>
                    (/\ ev'.op # "announce"
                     /\ Baseline(dataFile', key) = Baseline(dataFile, key)))]_vars

\* C10: once the watched entry is tracked in an existing channel with a
\* positive baseline below the remote timestamp T, then, unless the entry is
\* removed, the channel is deleted or the remote timestamp moves on, T is
\* eventually announced and the baseline eventually equals T.
WatchedKey == Key("g1", "c1", AddonType, "1")
C10_UpdateLiveness ==
    \A T \in 1..MaxTime :
        (/\ Tracked(dataFile, WatchedKey)
         /\ <<WatchedKey[1], WatchedKey[2]>> \in channels
         /\ Baseline(dataFile, WatchedKey) > 0
         /\ Baseline(dataFile, WatchedKey) < T
         /\ remote[WatchedKey[4]] = T)
        ~> (\/ ~Tracked(dataFile, WatchedKey)
            \/ <<WatchedKey[1], WatchedKey[2]>> \notin channels
            \/ remote[WatchedKey[4]] # T
            \/ /\ <<WatchedKey[1], WatchedKey[2], WatchedKey[3], WatchedKey[4], T>> \in announced
               /\ Baseline(dataFile, WatchedKey) = T)

\* what the store holds for a key: whether it is tracked, and its baseline
View(data, key) == <<Tracked(data, key), Baseline(data, key)>>
Changed(d1, d2) == {key \in Keys : View(d1, key) # View(d2, key)}
KeysOf(list) == {<<list[i].type, list[i].id>> : i \in 1..Len(list)}

\* C4 (as the code has it): every step's store writes change only the entry
\* the step's operation targets (all entries of the channel for remove-all,
\* and the entries of a channel that no longer exists for the sweep's
\* clean-up), so no write discards what another writer committed.
C4_StoreFrame ==
    [][dataFile' # dataFile =>
       \A key \in Changed(dataFile, dataFile') :
          \/ key = EvKey(ev')
          \/ ev'.op = "removeAll" /\ key[1] = ev'.g /\ key[2] = ev'.c
          \/ <<key[1], key[2]>> \notin channels /\ ~Tracked(dataFile', key)]_vars

\* C4 witness: a sweep has written the baseline of its item after a command
\* added an entry that is not in the sweep's snapshot, and both are stored.
C4_BothKept ==
    \E s \in Sweeps :
        /\ sweeps[s].pc = "account"
        /\ ev.op = "announce" /\ ev.s = s /\ ev.wrote
        /\ Baseline(dataFile, EvKey(ev)) = ev.t
        /\ KeysOf(ChanList(dataFile, ev.g, ev.c)) # KeysOf(sweeps[s].snap[sweeps[s].ci].list)

\* C4 (as stated): when a sweep writes a baseline after a command changed
\* the channel's entries during the sweep's fetch, the sweep's write wins and
\* the command's change is gone: the channel holds the entries of the sweep's
\* snapshot.
C4_LaterWriteDiscards ==
    [][\A s \in Sweeps :
          (/\ sweeps[s].pc = "fetch"
           /\ ev'.s = s /\ ev'.op \in {"seed", "announce"} /\ ev'.wrote
           /\ KeysOf(ChanList(dataFile, ev'.g, ev'.c))
                 # KeysOf(sweeps[s].snap[sweeps[s].ci].list))
          => KeysOf(ChanList(dataFile', ev'.g, ev'.c))
                = KeysOf(sweeps[s].snap[sweeps[s].ci].list)]_vars

(***************************************************************************)
(* Properties of the store operations.                                     *)
(***************************************************************************)
StoreOps == {"isNotification", "addNotification", "removeNotification",
             "removeAllNotifications", "getGuildNotifications",
             "getChannelNotifications", "setNotificationLastUpdated",
             "getNotificationLastUpdated"}
\* the step called operation op of the store on a document that is, or is
\* healed to, an object
Called(op) == ev'.op = op /\ Heal(file) = "object"
\* every channel other than <<g, c>>, and every other server, is as it was
OthersSame(d1, d2, g, c) ==
    /\ \A gg \in Servers : gg # g => d2[gg] = d1[gg]
    /\ \A cc \in ChannelIds :
          cc # c => /\ HasChan(d2, g, cc) = HasChan(d1, g, cc)
                    /\ ChanList(d2, g, cc) = ChanList(d1, g, cc)
Copies(list, type, id) == Cardinality({i \in 1..Len(list) : Matches(list[i], type, id)})
OnlyChan(data, g, c) == HasChan(data, g, c) /\ Len(data[g].chans) = 1

\* C15: on a document that is not an object every store operation returns
\* what it returns on an empty store, leaves the document an object holding
\* only the operation's own effect, and does not throw.
C15_SelfHealing ==
    [][(ev'.op \in StoreOps /\ file # "object")
       => (/\ ev'.ret # "throws"
           /\ file' = "object"
           /\ IF ev'.op = "addNotification"
              THEN /\ ev'.ret = "true"
                   /\ dataFile' = addNotification(EmptyData, ev'.g, ev'.c,
                                                  ev'.type, ev'.id).data
              ELSE /\ ev'.ret \in {"false", "empty", "null"}
                   /\ dataFile' = EmptyData)]_vars

\* C17: add of an untracked item returns true, creates the containers that
\* are missing and appends one entry without lastUpdated, after which the
\* item is tracked; add of a tracked item returns false and changes nothing,
\* and the channel holds exactly one such entry.
C17_AddSemantics ==
    [][Called("addNotification") =>
       LET g == ev'.g  c == ev'.c  type == ev'.type  id == ev'.id
       IN  IF ~isNotification(dataFile, g, c, type, id)
           THEN /\ ev'.ret = "true"
                /\ dataFile'[g].present /\ HasChan(dataFile', g, c)
                /\ ChanList(dataFile', g, c) =
                      Append(ChanList(dataFile, g, c),
                             [type |-> type, id |-> id, lastUpdated |-> Null])
                /\ isNotification(dataFile', g, c, type, id)
                /\ OthersSame(dataFile, dataFile', g, c)
           ELSE /\ ev'.ret = "false"
                /\ dataFile' = dataFile
                /\ Copies(ChanList(dataFile', g, c), type, id) = 1]_vars

\* C17 witness: an add of a tracked item has returned false.
C17_AddedTwice ==
    /\ ev.op = "addNotification" /\ ev.ret = "false" /\ file = "object"
    /\ isNotification(dataFile, ev.g, ev.c, ev.type, ev.id)

\* C18: remove of an item that is not tracked (server absent, channel absent
\* or channel holding only other entries) returns false and leaves the store
\* as it is.
C18_RemoveUntracked ==
    [][(/\ Called("removeNotification")
        /\ ~isNotification(dataFile, ev'.g, ev'.c, ev'.type, ev'.id))
       => (ev'.ret = "false" /\ dataFile' = dataFile)]_vars

\* C18 witness: a remove has returned false on a channel that holds other
\* entries.
C18_RemovedNothing ==
    /\ ev.op = "removeNotification" /\ ev.ret = "false" /\ file = "object"
    /\ HasChan(dataFile, ev.g, ev.c)

\* C19: remove of a tracked entry returns true and deletes exactly that
\* entry; an emptied channel loses its key, a server left without channels
\* loses its key, and everything else is as it was.
C19_RemoveSemantics ==
    [][(/\ Called("removeNotification")
        /\ isNotification(dataFile, ev'.g, ev'.c, ev'.type, ev'.id))
       => LET g == ev'.g  c == ev'.c
              Keep(e) == ~Matches(e, ev'.type, ev'.id)
              rest == SelectSeq(ChanList(dataFile, g, c), Keep)
          IN  /\ ev'.ret = "true"
              /\ Len(rest) = Len(ChanList(dataFile, g, c)) - 1
              /\ ChanList(dataFile', g, c) = rest
              /\ HasChan(dataFile', g, c) = (Len(rest) > 0)
              /\ dataFile'[g].present = (Len(rest) > 0 \/ ~OnlyChan(dataFile, g, c))
              /\ OthersSame(dataFile, dataFile', g, c)]_vars

\* C19 witness: a remove has emptied the only channel of a server, whose key
\* is gone, while the other server keeps its entry.
C19_PrunedServer ==
    /\ ev.op = "removeNotification" /\ ev.ret = "true"
    /\ ~dataFile[ev.g].present
    /\ \E gg \in Servers : dataFile[gg].present

\* C20: remove-all of a channel that has entries returns true and deletes
\* the channel key, and the server key when no channel is left, and leaves
\* every other channel and server as it was; on an absent server or channel
\* it returns false and changes nothing.
C20_RemoveAllSemantics ==
    [][Called("removeAllNotifications") =>
       LET g == ev'.g  c == ev'.c
       IN  IF HasChan(dataFile, g, c)
           THEN /\ Len(ChanList(dataFile, g, c)) > 0
                /\ ev'.ret = "true"
                /\ ~HasChan(dataFile', g, c)
                /\ dataFile'[g].present = ~OnlyChan(dataFile, g, c)
                /\ OthersSame(dataFile, dataFile', g, c)
           ELSE /\ ev'.ret = "false"
                /\ dataFile' = dataFile]_vars

\* C20 witness: a remove-all has deleted a channel of a server that keeps
\* another channel.
C20_RemovedChannel ==
    /\ ev.op = "removeAllNotifications" /\ ev.ret = "true"
    /\ dataFile[ev.g].present
    /\ ~HasChan(dataFile, ev.g, ev.c)

\* C16: no channel list holds two entries with the same type and id.
C16_Unique ==
    \A g \in Servers, c \in ChannelIds, type \in Types, id \in AllIds :
        Copies(ChanList(dataFile, g, c), type, id) <= 1

\* C16 witness: two users have confirmed an add of the same item; the entry
\* of the first is stored while the add of the second is about to run.
C16_SecondConfirmed ==
    \E k \in CmdSlots, j \in CmdSlots :
        /\ cmds[k].pc = "update" /\ cmds[k].choice = "confirm" /\ cmds[k].winner
        /\ isNotification(dataFile, cmds[k].g, cmds[k].c, cmds[k].type, cmds[k].id)
        /\ ev.op = "add" /\ ev.type = cmds[k].type /\ ev.id = cmds[k].id
        /\ ev.g = cmds[k].g /\ ev.c = cmds[k].c
        /\ cmds[j].pc = "idle"

\* C11: from an empty store an add leaves exactly the added entry, without
\* lastUpdated; the sweep that first fetches the entry's timestamp stores it
\* and announces nothing; a sweep that fetches a greater timestamp at least
\* 300 seconds after the baseline was stored sets the baseline to it and
\* sends one announcement, which was not sent before.
C11_EndToEnd ==
    [][LET key == EvKey(ev')
       IN  /\ (ev'.op = "add" /\ dataFile = EmptyData)
              => dataFile' = [EmptyData EXCEPT ![ev'.g] =
                                [present |-> TRUE,
                                 chans |-> <<[channel |-> ev'.c,
                                              list |-> <<[type |-> ev'.type, id |-> ev'.id,
                                                          lastUpdated |-> Null]>>]>>]]
           /\ (Fetched(ev') /\ Tracked(dataFile, key) /\ Baseline(dataFile, key) = Null)
              => (/\ ev'.op = "seed"
                  /\ Baseline(dataFile', key) = ev'.t
                  /\ announced' = announced
                  /\ sweeps'[ev'.s].pc \notin {"account", "send"})
           /\ (/\ Fetched(ev') /\ Tracked(dataFile, key)
               /\ Baseline(dataFile, key) > 0
               /\ ev'.t > Baseline(dataFile, key)
               /\ now >= storedAt[key] + DebounceMs)
              => (/\ ev'.op = "announce"
                  /\ Baseline(dataFile', key) = ev'.t
                  /\ sweeps'[ev'.s].pc = "account"
                  /\ sweeps'[ev'.s].data = ev'.t)
           /\ (ev'.op \in {"emit", "noemit"} /\ sweeps[ev'.s].pc = "account")
              => (/\ ev'.op = "emit"
                  /\ <<ev'.g, ev'.c, ev'.type, ev'.id, ev'.t>> \notin announced
                  /\ announced' = announced \cup {<<ev'.g, ev'.c, ev'.type, ev'.id, ev'.t>>})
      ]_vars

\* C11 witness: after the clock has advanced by the debounce time, the
\* announcement of timestamp 2 has been sent and 2 is the entry's baseline,
\* the only entry of the store.
C11_Announced ==
    /\ ev.op = "emit" /\ ev.t = MaxTime
    /\ now >= StartMs + DebounceMs
    /\ Baseline(dataFile, EvKey(ev)) = MaxTime
    /\ Len(dataFile[ev.g].chans) = 1
    /\ Len(ChanList(dataFile, ev.g, ev.c)) = 1
    /\ Cardinality(announced) = 1

\* the entry of key is in the snapshot the invocation iterates over
InSnap(sw, key) ==
    \E i \in 1..Len(sw.snap) :
        /\ sw.snap[i].channel = key[2]
        /\ FindPos(sw.snap[i].list, key[3], key[4]) > 0

\* C12: a sweep step whose fetch throws or finds nothing writes nothing to
\* the store and announces nothing, and the next sweep has every tracked
\* item of an existing channel in its snapshot and is fetching.
C12_FetchFailureSkips ==
    [][/\ (ev'.op \in {"seed", "announce", "skip"} /\ ev'.res \in {"nodata", "throw"})
          => (/\ ev'.op = "skip" /\ ~ev'.wrote
              /\ announced' = announced
              /\ sweeps'[ev'.s].pc \notin {"account", "send"}
              /\ \A key \in Keys :
                    <<key[1], key[2]>> \in channels =>
                        View(dataFile', key) = View(dataFile, key))
       /\ ev'.op = "tick"
          => \A key \in Keys :
                (Tracked(dataFile, key) /\ <<key[1], key[2]>> \in channels)
                => (sweeps'[ev'.s].pc = "fetch" /\ InSnap(sweeps'[ev'.s], key))]_vars

\* C12 witness: a fetch has thrown for an entry whose remote timestamp is
\* above its positive baseline, and the step was a skip.
C12_SkippedDueUpdate ==
    /\ ev.op = "skip" /\ ev.res = "throw"
    /\ Tracked(dataFile, EvKey(ev))
    /\ Baseline(dataFile, EvKey(ev)) > 0
    /\ remote[ev.id] > Baseline(dataFile, EvKey(ev))

\* the snapshot a sweep step works on: the one its invocation took, or the
\* one the step takes when the timer fires
StepSnap(s) ==
    IF ev'.op = "tick"
    THEN getGuildNotifications(dataFile, GuildOrder[1])
    ELSE sweeps[s].snap

\* C13: a sweep step that reaches a channel of its snapshot that does not
\* exist leaves no entry of that channel in the store (and no key of the
\* server when no other channel is left), and starts no fetch in it.
C13_DeletedChannelCleanup ==
    [][\A s \in RaceSweeps :
          ev'.s = s =>
             LET snap == StepSnap(s)
                 from == IF ev'.op = "tick" THEN 0 ELSE sweeps[s].ci
                 to == IF sweeps'[s].pc = "idle" THEN Len(snap) ELSE sweeps'[s].ci
                 g == GuildOrder[1]
             IN  \A j \in (from + 1)..to :
                    <<g, snap[j].channel>> \notin channels =>
                       /\ ~HasChan(dataFile', g, snap[j].channel)
                       /\ dataFile'[g].present => Len(dataFile'[g].chans) > 0
                       /\ ~(sweeps'[s].pc = "fetch" /\ sweeps'[s].ci = j)]_vars

\* C14: a sweep step that ends the invocation leaves no item of its
\* snapshot, in a channel that exists, for which no fetch was started.
C14_SweepIsolation ==
    [][\A s \in RaceSweeps :
          (ev'.s = s /\ sweeps'[s].pc = "idle") =>
             LET snap == StepSnap(s)
                 g == GuildOrder[1]
             IN  ~\E j \in 1..Len(snap) :
                    /\ <<g, snap[j].channel>> \in channels
                    /\ \/ j > sweeps[s].ci /\ Len(snap[j].list) > 0
                       \/ j = sweeps[s].ci /\ sweeps[s].ni < Len(snap[j].list)]_vars

\* C21: setNotificationLastUpdated on a tracked entry returns true, after
\* which getNotificationLastUpdated yields the timestamp and nothing else has
\* changed; on a missing server, channel or entry it returns false and
\* changes nothing; getNotificationLastUpdated changes nothing and returns
\* null for a missing server, channel or entry and for an entry without
\* lastUpdated, and the stored value otherwise.
C21_LastUpdatedRoundTrip ==
    [][LET g == ev'.g  c == ev'.c  type == ev'.type  id == ev'.id
           list == ChanList(dataFile, g, c)
           p == FindPos(list, type, id)
       IN  /\ Called("setNotificationLastUpdated") =>
                 IF isNotification(dataFile, g, c, type, id)
                 THEN /\ ev'.ret = "true"
                      /\ getNotificationLastUpdated(dataFile', g, c, type, id) = ev'.t
                      /\ Len(ChanList(dataFile', g, c)) = Len(list)
                      /\ \A i \in 1..Len(list) :
                            /\ ChanList(dataFile', g, c)[i].type = list[i].type
                            /\ ChanList(dataFile', g, c)[i].id = list[i].id
                            /\ i # p => ChanList(dataFile', g, c)[i] = list[i]
                      /\ OthersSame(dataFile, dataFile', g, c)
                 ELSE /\ ev'.ret = "false"
                      /\ dataFile' = dataFile
           /\ Called("getNotificationLastUpdated") =>
                 /\ dataFile' = dataFile
                 /\ IF p = 0 \/ ~HasChan(dataFile, g, c)
                    THEN ev'.ret = "null"
                    ELSE IF list[p].lastUpdated = Null
                    THEN ev'.ret = "null"
                    ELSE ev'.ret = "value" /\ ev'.t = list[p].lastUpdated]_vars

\* C21 witness: a read has returned the timestamp that a write stored, in
\* a channel that holds another entry never observed.
C21_ReadBack ==
    /\ ev.op = "getNotificationLastUpdated" /\ ev.ret = "value"
    /\ ev.t \in StoreTimes
    /\ \E i \in 1..Len(ChanList(dataFile, ev.g, ev.c)) :
          ChanList(dataFile, ev.g, ev.c)[i].lastUpdated = Null

\* C22: a step changes the store only when it ends an add command whose
\* own prompt was resolved by a press of Confirm by the user who invoked it,
\* and that step adds the command's item; a step of a command that is
\* rejected, that has a pending prompt, or whose prompt was cancelled or has
\* timed out, leaves the store as it is.
C22_AddRequiresConfirmation ==
    [][/\ dataFile' # dataFile =>
             \E k \in CmdSlots :
                /\ cmds[k].pc = "update" /\ cmds'[k].pc = "idle"
                /\ cmds[k].choice = "confirm" /\ cmds[k].by = cmds[k].user
                /\ cmds[k].own
                /\ dataFile' = addNotification(dataFile, cmds[k].g, cmds[k].c,
                                               cmds[k].type, cmds[k].id).data
       /\ \A k \in CmdSlots :
             (/\ cmds'[k] # cmds[k]
              /\ \/ cmds[k].pc \in {"idle", "fetch", "reply", "prompt", "edit"}
                 \/ cmds[k].pc = "update" /\ cmds[k].choice = "cancel")
             => dataFile' = dataFile]_vars

Prompting == {"reply", "prompt", "update", "edit"}
RemoveOps == {"remove", "removeError", "removeAll", "removeAllError"}

\* C23: a command of a member who is neither administrator nor owner never
\* gets to its confirmation prompt and no step of it changes the store; a
\* remove or remove-all command of such a member ends in an error and
\* changes neither the store nor the pending confirmations.
C23_PermissionGate ==
    [][/\ \A k \in CmdSlots :
             (cmds'[k].pc # "idle" /\ NotPermitted(cmds'[k].user))
             => (cmds'[k].pc \notin Prompting /\ cmds'[k].user \notin activeConfirmations')
       /\ \A k \in CmdSlots :
             (/\ cmds'[k] # cmds[k]
              /\ \/ cmds[k].pc # "idle" /\ NotPermitted(cmds[k].user)
                 \/ cmds'[k].pc # "idle" /\ NotPermitted(cmds'[k].user))
             => dataFile' = dataFile
       /\ (ev'.op \in RemoveOps /\ ev'.u \notin Admins)
             => (/\ ev'.op \in {"removeError", "removeAllError"}
                 /\ dataFile' = dataFile
                 /\ activeConfirmations' = activeConfirmations)]_vars

\* C23 witness: the remove command of a member without the permission, for
\* a tracked item with a valid id, has ended in an error.
C23_RefusedMember ==
    /\ ev.op = "removeError" /\ ev.u \notin Admins
    /\ ValidId(ev.id)
    /\ Tracked(dataFile, EvKey(ev))

\* C24: no command whose id is missing, not numeric or longer than 20
\* characters is waiting for the Steam request it made.
C24_ValidationFirst ==
    \A k \in CmdSlots : cmds[k].pc = "fetch" => ValidId(cmds[k].id)

\* C25: a remove command for an item that the channel does not track ends
\* in an error and leaves the store as it is.
C25_NotFoundRemoval ==
    [][(/\ ev'.op \in {"remove", "removeError"}
        /\ Copies(ChanList(dataFile, ev'.g, ev'.c), ev'.type, ev'.id) = 0)
       => (ev'.op = "removeError" /\ dataFile' = dataFile)]_vars

\* C25 witness: the remove command of an administrator, for a valid id that
\* the channel does not track among its entries, has ended in an error.
C25_RefusedUntracked ==
    /\ ev.op = "removeError" /\ ev.u \in Admins /\ ValidId(ev.id)
    /\ HasChan(dataFile, ev.g, ev.c)
    /\ ~Tracked(dataFile, EvKey(ev))

\* C26: after the remove-all command of an administrator in a channel that
\* holds at least one entry, the channel holds none.
C26_RemoveAllCommand ==
    [][(/\ ev'.op \in {"removeAll", "removeAllError"}
        /\ ev'.u \in Admins
        /\ Len(getChannelNotifications(dataFile, ev'.g, ev'.c)) >= 1)
       => Len(getChannelNotifications(dataFile', ev'.g, ev'.c)) = 0]_vars

ReadOps == {"isNotification", "getGuildNotifications", "getChannelNotifications",
            "getNotificationLastUpdated"}

\* C27: isNotification, getGuildNotifications, getChannelNotifications and
\* getNotificationLastUpdated leave a document that is an object as it is,
\* and return false, {}, [] and null when the server or the channel is
\* absent.
C27_ReadOnlyQueries ==
    [][(ev'.op \in ReadOps /\ file = "object")
       => (/\ dataFile' = dataFile /\ file' = file
           /\ (ev'.op = "getGuildNotifications" /\ ~dataFile[ev'.g].present)
                 => ev'.ret = "empty"
           /\ (ev'.op # "getGuildNotifications" /\ ~HasChan(dataFile, ev'.g, ev'.c))
                 => ev'.ret = CASE ev'.op = "isNotification" -> "false"
                                [] ev'.op = "getChannelNotifications" -> "empty"
                                [] ev'.op = "getNotificationLastUpdated" -> "null")]_vars

\* C27 witness: the entries of an absent channel have been listed in a
\* server that tracks items in another channel, and the list was empty.
C27_ListedAbsentChannel ==
    /\ ev.op = "getChannelNotifications" /\ ev.ret = "empty" /\ file = "object"
    /\ dataFile[ev.g].present
    /\ ~HasChan(dataFile, ev.g, ev.c)

\* C28: a sweep step that decides to announce an item, and the step that
\* hands the announcement to the channel, find the item's entry in the
\* store of that channel.
C28_AnnouncedIsTracked ==
    [][ev'.op \in {"announce", "emit"} => Tracked(dataFile', EvKey(ev'))]_vars

\* C29: across a step that keeps an entry tracked, a baseline that the
\* entry has is not lowered and not lost, and a sweep step that writes the
\* baseline of an entry that has a positive one strictly raises it.
C29_MonotonicBaseline ==
    [][\A key \in Keys :
          (/\ Tracked(dataFile, key) /\ Tracked(dataFile', key)
           /\ Baseline(dataFile, key) # Null)
          => (/\ Baseline(dataFile', key) # Null
              /\ Baseline(dataFile', key) >= Baseline(dataFile, key)
              /\ (/\ ev'.op \in {"seed", "announce"} /\ ev'.wrote
                  /\ EvKey(ev') = key
                  /\ Baseline(dataFile, key) > 0)
                 => Baseline(dataFile', key) > Baseline(dataFile, key))]_vars

SweepStepOps == {"tick", "seed", "announce", "skip", "emit", "noemit", "sent", "sendfail"}

\* C30: a sweep step adds no entry, removes no entry of a channel that
\* exists, and changes the baseline of no entry but the one it fetched, which
\* it sets to the fetched timestamp.
C30_SweepFrame ==
    [][ev'.op \in SweepStepOps =>
       \A key \in Keys :
          /\ Tracked(dataFile', key) => Tracked(dataFile, key)
          /\ (Tracked(dataFile, key) /\ <<key[1], key[2]>> \in channels)
                => Tracked(dataFile', key)
          /\ (/\ Tracked(dataFile, key) /\ Tracked(dataFile', key)
              /\ Baseline(dataFile', key) # Baseline(dataFile, key))
                => (/\ key = EvKey(ev') /\ ev'.wrote
                    /\ Baseline(dataFile', key) = ev'.t)]_vars

\* C30 witness: the fetch of an item has settled with the item's details in
\* a channel that exists, after a command removed the item's entry, and the
\* entry is not in the store.
C30_RemovedStaysRemoved ==
    /\ Fetched(ev) /\ ev.op \in {"seed", "announce"}
    /\ <<ev.g, ev.c>> \in channels
    /\ ~Tracked(dataFile, EvKey(ev))

\* C31: the document holds no channel key with an empty list and no server
\* key without a channel.
C31_NoEmptyContainers ==
    file = "object" =>
       \A g \in Servers :
          dataFile[g].present =>
             /\ Len(dataFile[g].chans) > 0
             /\ \A i \in 1..Len(dataFile[g].chans) : Len(dataFile[g].chans[i].list) > 0

\* C31 witness: a remove-all has deleted the last channel of a server, whose
\* key is gone.
C31_EmptiedServer ==
    /\ ev.op = "removeAllNotifications" /\ ev.ret = "true" /\ file = "object"
    /\ ~dataFile[ev.g].present

\* the users whose prompt is open or being closed
Outstanding == {cmds[k].user : k \in {j \in CmdSlots : cmds[j].pc \in {"prompt", "update", "edit"}}}

\* C32: every user of the pending-confirmation table has a prompt that is
\* open or being closed, so the table is empty when no prompt is
\* outstanding, and a user who is in the table is eventually out of it.
C32_PendingReleased ==
    /\ [](activeConfirmations \subseteq Outstanding)
    /\ \A u \in Users : (u \in activeConfirmations) ~> (u \notin activeConfirmations)

\* C32 witness: confirmation.update has failed for a prompt that was
\* resolved by a press, and the catch block is closing the prompt while the
\* user is still in the table.
C32_ClosingAfterError ==
    \E k \in CmdSlots :
       /\ cmds[k].pc = "edit" /\ cmds[k].choice # ""
       /\ cmds[k].user \in activeConfirmations

====
